---- MODULE Spec2Model ----
(***************************************************************************)
(* GameLunch (src/src/app.rs): the application object, its egui update     *)
(* tick, and the process-time sampling thread the first tick spawns.       *)
(*                                                                         *)
(* Strings are modelled by TLA+ strings; a filesystem path is the sequence *)
(* of its pieces (separators included), so that splitting on a separator   *)
(* is computed and not assumed.  The HashMap behind the mutex is a         *)
(* function whose DOMAIN is its key set.                                   *)
(*                                                                         *)
(* A frame of update() is one click at most.  The part of a frame before   *)
(* the central panel is one step; on the Launch and Process Time pages the *)
(* central panel then blocks on the mutex (uiPc = "wait"), holds it for    *)
(* the whole match arm (uiPc = "held") and releases it as the frame ends.  *)
(* A sampling thread steps through refresh, lock, one step per process of  *)
(* the list, drop and sleep.                                               *)
(***************************************************************************)
EXTENDS Integers, Sequences, FiniteSets, TLC

(* ------------------------------ bounds -------------------------------- *)

\* sampling stops once a name has been present in this many cycles
MaxSeen == 2
\* registered games
MaxGames == 2
\* tracked child handles
MaxHandles == 2
\* length of the hidden-process list
MaxHidden == 3

(* ------------------------- program constants -------------------------- *)

\* seconds credited per cycle: `hashmap.get(&name).unwrap_or(&0) + 5`
Increment == 5

(* --------------------------- input domains ---------------------------- *)

\* names the OS reports for running processes
RawProcessNames == {"Game.exe", "game.exe", "tool"}

\* str::to_lowercase on the names of the model
ToLower(s) ==
    CASE s = "Game.exe" -> "game.exe"
      [] s = "/opt/Game.exe" -> "/opt/game.exe"
      [] OTHER -> s

ProcessNames == {ToLower(r) : r \in RawProcessNames}

\* what the user can type in the three text fields of the Add Game page
GameNames == {"", "Doom"}
GameAuthors == {"", "id"}
GamePath == <<"/", "opt", "/", "Game.exe">>
MissingPath == <<"/", "nope">>
EmptyPath == <<>>
Locations == {EmptyPath, GamePath, MissingPath}

\* Path::exists on the paths of the model
PathExists(path) == path = GamePath

Pages == {"Home", "Launch", "AddGame", "ProcTime", "Settings"}

(* ------------------------------- state -------------------------------- *)

VARIABLES
    page, games, game, location, status, launch_status, procs, time,
    thread_spawned, removed_values,
    loops,         \* the sampling threads std::thread::spawn has started
    mutex,         \* owner of the Mutex around the time map
    uiPc,          \* where the UI thread is inside update()
    clicked,       \* this frame's click was consumed before the central panel
    exited,        \* the process has exited
    terminated,    \* Child::kill calls issued by PANIC
    commands,      \* kill-by-name commands issued by PANIC
    time0,         \* history: the time map as constructed
    seen,          \* history: per name, the cycles in which it was running
    panicked       \* history: the PANIC handler was entered

vars == <<page, games, game, location, status, launch_status, procs, time,
          thread_spawned, removed_values, loops, mutex, uiPc, clicked,
          exited, terminated, commands, time0, seen, panicked>>

appVars == <<page, games, game, location, status, launch_status, procs,
             thread_spawned, removed_values, uiPc, clicked, exited,
             terminated, commands, panicked>>

(* ------------------------------ HashMap ------------------------------- *)

EmptyMap == [k \in {} |-> 0]

\* hashmap.get(&name).unwrap_or(&0)
Get(m, k) == IF k \in DOMAIN m THEN m[k] ELSE 0

\* the map is rebuilt around the inserted entry, the other entries lost
InsertAlone(m, k, v) == [x \in {k} |-> v]

\* hashmap.insert(name, val)
Insert(m, k, v) == [x \in DOMAIN m \cup {k} |-> IF x = k THEN v ELSE m[x]]

\* Vec::contains
Contains(s, x) == \E i \in 1..Len(s) : s[i] = x

(* ------------------------------- mutex -------------------------------- *)

Free == <<"free", 0>>
UiOwner == <<"ui", 0>>
LoopOwner(t) == <<"loop", t>>

\* a lock that excludes nobody
AvailableAlways(m) == TRUE

\* Mutex::lock returns only once no thread holds the mutex
Available(m) == m = Free

(* ------------------------ sampling thread ----------------------------- *)

IdleLoop ==
    [pc |-> "refresh", snapshot |-> <<>>, idx |-> 0, names |-> <<>>,
     start |-> EmptyMap]

\* the lower-cased names of a process list
LowerSet(snapshot) == {ToLower(snapshot[i]) : i \in 1..Len(snapshot)}

\* process lists a refresh can report, in the order the iterator yields them
Snapshots ==
    {<<>>, <<"game.exe">>, <<"tool">>, <<"Game.exe", "game.exe">>,
     <<"game.exe", "tool">>, <<"tool", "Game.exe">>,
     <<"Game.exe", "tool", "game.exe">>}

\* system.refresh_all(): the process list of this cycle
Refresh(t) ==
    /\ ~exited
    /\ loops[t].pc = "refresh"
    /\ \A n \in ProcessNames : Get(seen, n) < MaxSeen
    /\ \E s \in Snapshots :
          loops' = [loops EXCEPT ![t].pc = "lock", ![t].snapshot = s]
    /\ UNCHANGED <<appVars, time, mutex, time0, seen>>

\* time.lock().unwrap()
Lock(t) ==
    /\ ~exited
    /\ loops[t].pc = "lock"
    /\ Available(mutex)
    /\ mutex' = LoopOwner(t)
    /\ loops' = [loops EXCEPT ![t].pc = "iter", ![t].idx = 0,
                              ![t].names = <<>>, ![t].start = time]
    /\ UNCHANGED <<appVars, time, time0, seen>>

\* every process instance counts, the `names` check left out
EveryInstance(names, name) == TRUE

\* `if !names.contains(&name)`
FirstOfName(names, name) == ~Contains(names, name)

\* `hashmap.get(&name).unwrap_or(&0) + 5`
Credited(old) == old + Increment

\* one iteration of the for_each closure
Visit(t) ==
    /\ ~exited
    /\ loops[t].pc = "iter"
    /\ loops[t].idx < Len(loops[t].snapshot)
    /\ LET name == ToLower(loops[t].snapshot[loops[t].idx + 1])
       IN  IF FirstOfName(loops[t].names, name)
           THEN /\ time' = Insert(time, name, Credited(Get(time, name)))
                /\ loops' = [loops EXCEPT ![t].idx = @ + 1,
                                          ![t].names = Append(@, name)]
           ELSE /\ time' = time
                /\ loops' = [loops EXCEPT ![t].idx = @ + 1]
    /\ UNCHANGED <<appVars, mutex, time0, seen>>

\* the guard is still alive during the sleep
DropAfterSleep(t) ==
    /\ ~exited
    /\ loops[t].pc = "iter"
    /\ loops[t].idx = Len(loops[t].snapshot)
    /\ seen' = [n \in ProcessNames |->
                  IF n \in LowerSet(loops[t].snapshot)
                  THEN Get(seen, n) + 1 ELSE Get(seen, n)]
    /\ loops' = [loops EXCEPT ![t] = [IdleLoop EXCEPT !.pc = "sleep"]]
    /\ UNCHANGED <<appVars, time, mutex, time0>>

\* std::mem::drop(hashmap), then thread::sleep begins
Drop(t) ==
    /\ ~exited
    /\ loops[t].pc = "iter"
    /\ loops[t].idx = Len(loops[t].snapshot)
    /\ mutex' = Free
    /\ seen' = [n \in ProcessNames |->
                  IF n \in LowerSet(loops[t].snapshot)
                  THEN Get(seen, n) + 1 ELSE Get(seen, n)]
    /\ loops' = [loops EXCEPT ![t] = [IdleLoop EXCEPT !.pc = "sleep"]]
    /\ UNCHANGED <<appVars, time, time0>>

\* thread::sleep(5 s) returns and the loop starts over
Wake(t) ==
    /\ ~exited
    /\ loops[t].pc = "sleep"
    /\ loops' = [loops EXCEPT ![t].pc = "refresh"]
    /\ UNCHANGED <<appVars, time, mutex, time0, seen>>

(* ------------------------------- Init --------------------------------- *)

\* time maps a previous run can have saved (eframe::get_value in new())
SavedTimes == {EmptyMap, [k \in {"game.exe"} |-> Increment]}

\* Add Game forms a previous run can have saved: untouched, or filled in
SavedForms ==
    {[name |-> "", author |-> "", location |-> EmptyPath],
     [name |-> "Doom", author |-> "id", location |-> GamePath]}

Init ==
    /\ page = "Home"
    /\ games = <<>>
    /\ \E f \in SavedForms :
          /\ game = [name |-> f.name, author |-> f.author]
          /\ location = f.location
    /\ status = ""
    /\ launch_status = ""
    /\ procs = <<>>
    /\ time \in SavedTimes
    /\ thread_spawned = FALSE
    /\ removed_values = <<>>
    /\ loops = <<>>
    /\ mutex = Free
    /\ uiPc = "idle"
    /\ clicked = FALSE
    /\ exited = FALSE
    /\ terminated = <<>>
    /\ commands = <<>>
    /\ time0 = time
    /\ seen = [n \in ProcessNames |-> 0]
    /\ panicked = FALSE

(* ----------------------------- UI thread ------------------------------ *)

\* the pages whose central panel locks the time map for the whole arm
LockPages == {"Launch", "ProcTime"}

\* the flag is not consulted
SpawnAlways(flag) == TRUE

\* `if !self.thread_spawned`
NeedsSpawn(flag) == ~flag

\* update(), lines 84-120: spawn the sampling thread on the first run
EnsureLoop ==
    /\ loops' = IF NeedsSpawn(thread_spawned) THEN Append(loops, IdleLoop) ELSE loops
    /\ thread_spawned' = IF NeedsSpawn(thread_spawned) THEN TRUE ELSE thread_spawned

\* the rest of the frame after the top, bottom and side panels: the central
\* panel of a lock page first waits for the mutex; any other page only renders
Central(p, c) ==
    IF p \in LockPages
    THEN uiPc' = "wait" /\ clicked' = c
    ELSE uiPc' = "idle" /\ clicked' = FALSE

\* a frame with no click in the top, bottom and side panels
Tick ==
    /\ ~exited /\ uiPc = "idle"
    /\ EnsureLoop
    /\ Central(page, FALSE)
    /\ UNCHANGED <<page, games, game, location, status, launch_status, procs,
                   removed_values, exited, terminated, commands, panicked,
                   time, mutex, time0, seen>>

\* ui.selectable_value(&mut self.page, ...)
SelectPage(p) ==
    /\ ~exited /\ uiPc = "idle"
    /\ EnsureLoop
    /\ page' = p
    /\ Central(p, TRUE)
    /\ UNCHANGED <<games, game, location, status, launch_status, procs,
                   removed_values, exited, terminated, commands, panicked,
                   time, mutex, time0, seen>>

\* "Close Launcher": ViewportCommand::Close ends the run
CloseLauncher ==
    /\ ~exited /\ uiPc = "idle"
    /\ EnsureLoop
    /\ exited' = TRUE
    /\ UNCHANGED <<page, games, game, location, status, launch_status, procs,
                   removed_values, uiPc, clicked, terminated, commands,
                   panicked, time, mutex, time0, seen>>

(* PANIC *)

RECURSIVE Join(_)
\* the string a sequence of pieces spells
Join(pieces) ==
    IF pieces = <<>> THEN "" ELSE Head(pieces) \o Join(Tail(pieces))

\* the index of the last piece equal to sep, 0 when there is none
LastSep(path, sep) ==
    LET hits == {i \in 1..Len(path) : path[i] = sep}
    IN  IF hits = {} THEN 0 ELSE CHOOSE i \in hits : \A j \in hits : j <= i

\* location.to_string_lossy().split(sep).last().unwrap_or("")
LastSegment(path, sep) == Join(SubSeq(path, LastSep(path, sep) + 1, Len(path)))

\* cfg(unix): one `sh -c "kill $(pidof <name>)"` per game
UnixCommands ==
    [i \in 1..Len(games) |->
        [program |-> "sh", name |-> LastSegment(games[i].location, "/")]]

\* cfg(not(unix)): `for game in &self.games { for game in &self.games { .. } }`,
\* a `cmd /C "taskkill $(pidof <name>)"` per iteration of the inner loop
WindowsCommands ==
    [j \in 1..(Len(games) * Len(games)) |->
        [program |-> "cmd",
         name |-> LastSegment(games[((j - 1) % Len(games)) + 1].location, "\\")]]

\* the loop over the handles ends at the first failing call
KillsUntilFailure(failed) ==
    [i \in 1..(IF failed = 0 THEN Len(procs) ELSE failed) |->
        [child |-> procs[i], ok |-> i # failed]]

\* `let _ = proc.kill();` for every handle, call i failing when i = failed
Kills(failed) ==
    [i \in 1..Len(procs) |-> [child |-> procs[i], ok |-> i # failed]]

\* `.status().unwrap_or_default()` for every command, command j failing when
\* j = failed
Statuses(cmds, failed) ==
    [j \in 1..Len(cmds) |->
        [program |-> cmds[j].program, name |-> cmds[j].name, ok |-> j # failed]]

\* the PANIC handler, cmds the kill-by-name commands of the build target
PanicWith(cmds) ==
    /\ ~exited /\ uiPc = "idle"
    /\ EnsureLoop
    /\ panicked' = TRUE
    /\ \E kf \in 0..Len(procs), cf \in 0..Len(cmds) :
          /\ terminated' = Kills(kf)
          /\ commands' = Statuses(cmds, cf)
          /\ exited' = TRUE
    /\ UNCHANGED <<page, games, game, location, status, launch_status, procs,
                   removed_values, uiPc, clicked, time, mutex, time0, seen>>

\* "PANIC" in a cfg(unix) build
PanicUnix == PanicWith(UnixCommands)

\* "PANIC" in a cfg(not(unix)) build
PanicWindows == PanicWith(WindowsCommands)

(* Process Time page, side panel *)

\* the names of the model in the order of String's Ord
NameOrder == <<"game.exe", "tool">>

RECURSIVE Repeat(_, _)
Repeat(x, n) == IF n = 0 THEN <<>> ELSE <<x>> \o Repeat(x, n - 1)

Count(s, x) == Cardinality({i \in 1..Len(s) : s[i] = x})

RECURSIVE SortFrom(_, _)
SortFrom(s, k) ==
    IF k > Len(NameOrder) THEN <<>>
    ELSE Repeat(NameOrder[k], Count(s, NameOrder[k])) \o SortFrom(s, k + 1)

\* Vec::sort
SortVec(s) == SortFrom(s, 1)

\* Vec::remove(i), i counted from 1
RemoveAt(s, i) == SubSeq(s, 1, i - 1) \o SubSeq(s, i + 1, Len(s))

\* "Sort"
Sort ==
    /\ ~exited /\ uiPc = "idle"
    /\ page = "ProcTime"
    /\ EnsureLoop
    /\ removed_values' = SortVec(removed_values)
    /\ Central(page, TRUE)
    /\ UNCHANGED <<page, games, game, location, status, launch_status, procs,
                   exited, terminated, commands, panicked,
                   time, mutex, time0, seen>>

\* "Restore" beside the i-th hidden name
Restore(i) ==
    /\ ~exited /\ uiPc = "idle"
    /\ page = "ProcTime"
    /\ i \in 1..Len(removed_values)
    /\ EnsureLoop
    /\ removed_values' = RemoveAt(removed_values, i)
    /\ Central(page, TRUE)
    /\ UNCHANGED <<page, games, game, location, status, launch_status, procs,
                   exited, terminated, commands, panicked,
                   time, mutex, time0, seen>>

(* Home page *)

\* "Get Started"
GetStarted ==
    /\ ~exited /\ uiPc = "idle"
    /\ page = "Home"
    /\ EnsureLoop
    /\ page' = "AddGame"
    /\ UNCHANGED <<games, game, location, status, launch_status, procs,
                   removed_values, uiPc, clicked, exited, terminated, commands,
                   panicked, time, mutex, time0, seen>>

(* Add Game page *)

\* ui.text_edit_singleline(&mut self.game.name)
EditName(n) ==
    /\ ~exited /\ uiPc = "idle"
    /\ page = "AddGame"
    /\ EnsureLoop
    /\ game' = [game EXCEPT !.name = n]
    /\ UNCHANGED <<page, games, location, status, launch_status, procs,
                   removed_values, uiPc, clicked, exited, terminated, commands,
                   panicked, time, mutex, time0, seen>>

\* ui.text_edit_singleline(&mut self.game.author)
EditAuthor(a) ==
    /\ ~exited /\ uiPc = "idle"
    /\ page = "AddGame"
    /\ EnsureLoop
    /\ game' = [game EXCEPT !.author = a]
    /\ UNCHANGED <<page, games, location, status, launch_status, procs,
                   removed_values, uiPc, clicked, exited, terminated, commands,
                   panicked, time, mutex, time0, seen>>

\* ui.text_edit_singleline(&mut self.location)
EditLocation(l) ==
    /\ ~exited /\ uiPc = "idle"
    /\ page = "AddGame"
    /\ EnsureLoop
    /\ location' = l
    /\ UNCHANGED <<page, games, game, status, launch_status, procs,
                   removed_values, uiPc, clicked, exited, terminated, commands,
                   panicked, time, mutex, time0, seen>>

\* the author check left out
RejectionNoAuthor(path, name, author) ==
    IF ~PathExists(path) THEN "Game does not exist"
    ELSE IF name = "" THEN "Game requires a name"
    ELSE ""

\* the message of the if / else-if chain, "" when the game is accepted
Rejection(path, name, author) ==
    IF ~PathExists(path) THEN "Game does not exist"
    ELSE IF name = "" THEN "Game requires a name"
    ELSE IF author = "" THEN "Game requires an author"
    ELSE ""

\* "Add Game"
AddGame ==
    /\ ~exited /\ uiPc = "idle"
    /\ page = "AddGame"
    /\ EnsureLoop
    /\ status' = Rejection(location, game.name, game.author)
    /\ IF Rejection(location, game.name, game.author) = ""
       THEN /\ Len(games) < MaxGames
            /\ games' = Append(games, [name |-> game.name, author |-> game.author,
                                       location |-> location])
            /\ game' = [name |-> "", author |-> ""]
            /\ location' = EmptyPath
       ELSE UNCHANGED <<games, game, location>>
    /\ UNCHANGED <<page, launch_status, procs,
                   removed_values, uiPc, clicked, exited, terminated, commands,
                   panicked, time, mutex, time0, seen>>

(* Launch and Process Time pages: the central panel holds the lock *)

\* `let data = self.time.lock().unwrap();`
LockTime ==
    /\ ~exited /\ uiPc = "wait"
    /\ Available(mutex)
    /\ mutex' = UiOwner
    /\ uiPc' = "held"
    /\ UNCHANGED <<page, games, game, location, status, launch_status, procs,
                   thread_spawned, removed_values, clicked, exited, terminated,
                   commands, panicked, time, loops, time0, seen>>

\* the end of the match arm drops `data`, and update() returns
Release ==
    /\ mutex' = Free
    /\ uiPc' = "idle"
    /\ clicked' = FALSE

\* the central panel is drawn and no button in it is clicked
Render ==
    /\ ~exited /\ uiPc = "held"
    /\ Release
    /\ UNCHANGED <<page, games, game, location, status, launch_status, procs,
                   thread_spawned, removed_values, exited, terminated,
                   commands, panicked, time, loops, time0, seen>>

\* "Launch" beside the i-th game; ok is whether Command::spawn succeeded
Launch(i, ok) ==
    /\ ~exited /\ uiPc = "held" /\ ~clicked
    /\ page = "Launch"
    /\ i \in 1..Len(games)
    /\ IF ok
       THEN /\ Len(procs) < MaxHandles
            /\ procs' = Append(procs, games[i].location)
            /\ launch_status' = "Launched game"
       ELSE /\ procs' = procs
            /\ launch_status' = "Failed to launch game"
    /\ Release
    /\ UNCHANGED <<page, games, game, location, status,
                   thread_spawned, removed_values, exited, terminated,
                   commands, panicked, time, loops, time0, seen>>

\* the removed game's time entry is dropped with it
RemoveAndForget(i) ==
    /\ ~exited /\ uiPc = "held" /\ ~clicked
    /\ page = "Launch"
    /\ i \in 1..Len(games)
    /\ games' = RemoveAt(games, i)
    /\ time' = [k \in DOMAIN time \ {ToLower(LastSegment(games[i].location, "/"))}
                  |-> time[k]]
    /\ Release
    /\ UNCHANGED <<page, game, location, status, launch_status, procs,
                   thread_spawned, removed_values, exited, terminated,
                   commands, panicked, loops, time0, seen>>

\* "Remove" beside the i-th game
Remove(i) ==
    /\ ~exited /\ uiPc = "held" /\ ~clicked
    /\ page = "Launch"
    /\ i \in 1..Len(games)
    /\ games' = RemoveAt(games, i)
    /\ Release
    /\ UNCHANGED <<page, game, location, status, launch_status, procs,
                   thread_spawned, removed_values, exited, terminated,
                   commands, panicked, time, loops, time0, seen>>

\* Vec::dedup: consecutive equal elements collapse to the first
RECURSIVE Dedup(_)
Dedup(s) ==
    IF Len(s) <= 1 THEN s
    ELSE IF s[1] = s[2] THEN Dedup(Tail(s))
    ELSE <<s[1]>> \o Dedup(Tail(s))

\* `self.removed_values.push(key.to_string()); self.removed_values.dedup();`
PushHidden(hidden, key) == Dedup(Append(hidden, key))

RECURSIVE PushAll(_, _)
PushAll(hidden, keys) ==
    IF keys = <<>> THEN hidden
    ELSE PushAll(PushHidden(hidden, Head(keys)), Tail(keys))

\* the orders in which data.iter() can yield the keys of the map
IterOrders(m) ==
    {o \in [1..Cardinality(DOMAIN m) -> DOMAIN m] :
        \A i, j \in 1..Cardinality(DOMAIN m) : i # j => o[i] # o[j]}

\* "Hide All"
HideAll ==
    /\ ~exited /\ uiPc = "held" /\ ~clicked
    /\ page = "ProcTime"
    /\ Len(removed_values) + Cardinality(DOMAIN time) <= MaxHidden
    /\ \E o \in IterOrders(time) : removed_values' = PushAll(removed_values, o)
    /\ Release
    /\ UNCHANGED <<page, games, game, location, status, launch_status, procs,
                   thread_spawned, exited, terminated,
                   commands, panicked, time, loops, time0, seen>>

\* "Hide" beside a listed name
Hide(key) ==
    /\ ~exited /\ uiPc = "held" /\ ~clicked
    /\ page = "ProcTime"
    /\ key \in DOMAIN time
    /\ ~Contains(removed_values, key)
    /\ Len(removed_values) < MaxHidden
    /\ removed_values' = PushHidden(removed_values, key)
    /\ Release
    /\ UNCHANGED <<page, games, game, location, status, launch_status, procs,
                   thread_spawned, exited, terminated,
                   commands, panicked, time, loops, time0, seen>>

(* -------------------------- specifications ---------------------------- *)

Sampler ==
    \/ \E t \in 1..Len(loops) : Refresh(t)
    \/ \E t \in 1..Len(loops) : Lock(t)
    \/ \E t \in 1..Len(loops) : Visit(t)
    \/ \E t \in 1..Len(loops) : Drop(t)
    \/ \E t \in 1..Len(loops) : Wake(t)

Navigate ==
    \/ Tick
    \/ \E p \in Pages : SelectPage(p)
    \/ GetStarted
    \/ LockTime
    \/ Render

Tracking ==
    \/ Sort
    \/ \E i \in 1..MaxHidden : Restore(i)
    \/ HideAll
    \/ \E k \in ProcessNames : Hide(k)

Library ==
    \/ AddGame
    \/ \E i \in 1..MaxGames, ok \in BOOLEAN : Launch(i, ok)
    \/ \E i \in 1..MaxGames : Remove(i)

Form ==
    \/ \E n \in GameNames : EditName(n)
    \/ \E a \in GameAuthors : EditAuthor(a)
    \/ \E l \in Locations : EditLocation(l)

Ending == CloseLauncher \/ PanicUnix \/ PanicWindows

\* every thread and every input
Next == Sampler \/ Navigate \/ Tracking \/ Library \/ Form \/ Ending

Spec == Init /\ [][Next]_vars

\* the sampling threads against a user who browses, launches and hides but
\* types nothing into the Add Game form and never ends the run
NextTime == Sampler \/ Navigate \/ Tracking \/ Library

SpecTime == Init /\ [][NextTime]_vars

\* the user's whole repertoire on the game registry, the sampling threads
\* spawned but not scheduled
NextRegistry == Navigate \/ Library \/ Form \/ Ending

SpecRegistry == Init /\ [][NextRegistry]_vars

(* ----------------------------- properties ------------------------------ *)

\* the batch of loop t is fully applied and the guard not yet dropped
BatchDone(t) ==
    loops[t].pc = "iter" /\ loops[t].idx = Len(loops[t].snapshot)

\* the cycles, the one just applied included, in which name n was running
CyclesWith(n) ==
    seen[n] + Cardinality({t \in 1..Len(loops) :
                              BatchDone(t) /\ n \in LowerSet(loops[t].snapshot)})

NoPartialBatch == \A t \in 1..Len(loops) : loops[t].pc = "iter" => BatchDone(t)

\* C1, as stated: between batches the value of every name is 5 times the
\* number of cycles in which a process of that lower-cased name was running
C1_FiveTimesCycles ==
    (NoPartialBatch /\ \E n \in ProcessNames : CyclesWith(n) > 0)
        => \A n \in ProcessNames : Get(time, n) = Increment * CyclesWith(n)

\* C1, amended: between batches the value of every name is the value it had
\* in the map the application was constructed with (0 when it had none) plus 5
\* times the number of cycles in which a process of that lower-cased name was
\* running, however many processes carried the name in one cycle
C1_StartPlusFiveTimesCycles ==
    NoPartialBatch
        => /\ \A n \in ProcessNames :
                 Get(time, n) = Get(time0, n) + Increment * CyclesWith(n)
           /\ DOMAIN time = DOMAIN time0 \cup {n \in ProcessNames : CyclesWith(n) > 0}

\* on top of a restored 5 s, a second cycle has just applied a list in which
\* two processes share a lower-cased name, while a UI tick waits to read the map
C1_Witness ==
    /\ Len(loops) = 1
    /\ BatchDone(1)
    /\ loops[1].snapshot = <<"Game.exe", "tool", "game.exe">>
    /\ seen["game.exe"] = 1 /\ seen["tool"] = 0
    /\ Get(time0, "game.exe") = 5
    /\ time["game.exe"] = 15 /\ time["tool"] = 5
    /\ uiPc = "wait"

\* the map m with every name of S credited once
CreditAll(m, S) ==
    [k \in DOMAIN m \cup S |-> IF k \in S THEN Get(m, k) + Increment ELSE m[k]]

\* C2: while the UI holds the map for reading, every cycle in progress has
\* credited none of its names or all of them
C2_BatchAtomic ==
    uiPc = "held"
        => \A t \in 1..Len(loops) :
              loops[t].pc = "iter"
                  => \/ time = loops[t].start
                     \/ time = CreditAll(loops[t].start, LowerSet(loops[t].snapshot))

\* the UI reads the map while a loop waits for the lock with a list of two
\* names to credit, after a completed cycle
C2_Witness ==
    /\ uiPc = "held"
    /\ Len(loops) = 1
    /\ loops[1].pc = "lock"
    /\ loops[1].snapshot = <<"game.exe", "tool">>
    /\ seen["game.exe"] = 1

\* C3: every step leaves at most one sampling loop, a loop is started only
\* while thread_spawned is false, and every step of update() ends with
\* thread_spawned true and exactly one loop
C3_OneLoop ==
    [][ /\ Len(loops') <= 1
        /\ (Len(loops') # Len(loops) => ~thread_spawned /\ Len(loops) = 0)
        /\ (appVars' # appVars => thread_spawned' /\ Len(loops') = 1)
        /\ (thread_spawned => thread_spawned') ]_vars

\* many ticks later: a name hidden on the Process Time page, a game launched,
\* two completed cycles, still one loop
C3_Witness ==
    /\ thread_spawned
    /\ Len(loops) = 1
    /\ removed_values # <<>>
    /\ procs # <<>>
    /\ seen["game.exe"] = 2

\* C4: no step removes an entry of the time map or lowers its value
C4_Monotone ==
    [][ \A n \in DOMAIN time : n \in DOMAIN time' /\ time'[n] >= time[n] ]_vars

\* a name restored with 5 s has been credited twice since, with UI actions
\* (a game added and removed, a name hidden) in the same run
C4_Witness ==
    /\ Get(time0, "game.exe") = 5
    /\ Get(time, "game.exe") = 15
    /\ status = "" /\ games = <<>> /\ location = EmptyPath /\ launch_status # ""
    /\ removed_values # <<>>

\* C5: PANIC issues one terminate call per tracked handle and one
\* kill-by-name command per registered game
C5_OneCallEach ==
    panicked => Len(terminated) = Len(procs) /\ Len(commands) = Len(games)

\* the separator the build of a kill-by-name command splits locations on
SepOf(program) == IF program = "sh" THEN "/" ELSE "\\"

\* C6: once PANIC is invoked the process has exited, every tracked handle has
\* had its terminate call and every registered game its kill-by-name command,
\* whichever of the calls failed
C6_PanicExits ==
    panicked
        => /\ exited
           /\ Len(terminated) = Len(procs)
           /\ \A i \in 1..Len(procs) : terminated[i].child = procs[i]
           /\ Len(commands) >= Len(games)
           /\ \A i \in 1..Len(games) :
                 commands[i].name =
                     LastSegment(games[i].location, SepOf(commands[i].program))

\* the first of two terminate calls and the first of two commands failed
C6_Witness ==
    /\ panicked /\ exited
    /\ Len(procs) = 2 /\ Len(games) = 2
    /\ ~terminated[1].ok /\ terminated[2].ok
    /\ ~commands[1].ok /\ commands[2].ok
    /\ commands[1].name = "Game.exe"

\* the three fields of the Add Game form describe a game the chain accepts
FormValid == PathExists(location) /\ game.name # "" /\ game.author # ""

\* C7: a step that changes the status of the Add Game page or the length of
\* the registry on that page appends the entered game and clears the status
\* when the path exists and name and author are non-empty, and otherwise
\* leaves the registry unchanged and sets a non-empty status, "Game does not
\* exist" for a path that does not exist
C7_AddGameValidates ==
    [][ (page = "AddGame" /\ (status' # status \/ Len(games') # Len(games)))
           => IF FormValid
              THEN /\ games' = Append(games, [name |-> game.name,
                                             author |-> game.author,
                                             location |-> location])
                   /\ status' = ""
              ELSE /\ games' = games
                   /\ status' # ""
                   /\ (~PathExists(location) => status' = "Game does not exist")
                   /\ (PathExists(location)
                          => status' \in {"Game requires a name",
                                          "Game requires an author"}) ]_vars

\* a game was registered, and a later attempt with a path that does not exist
\* was rejected
C7_Witness ==
    /\ Len(games) = 1
    /\ location = MissingPath /\ game.name = "Doom" /\ game.author = "id"
    /\ status = "Game does not exist"

\* C8: a step that changes the time map is a step of a sampling loop inside
\* its critical section and changes no field the UI writes; so no UI action,
\* Launch, Remove, Add Game, Hide, Hide All, Restore and Sort among them,
\* changes the map
C8_OnlyLoopWrites ==
    [][ time' # time
           => /\ appVars' = appVars
              /\ \E t \in 1..Len(loops) :
                    loops[t].pc = "iter" /\ mutex = LoopOwner(t) ]_vars

\* a game was added, launched and removed and a name hidden, and the map
\* holds what two cycles credited
C8_Witness ==
    /\ launch_status = "Launched game" /\ procs # <<>> /\ games = <<>>
    /\ status = "" /\ location = EmptyPath
    /\ removed_values # <<>>
    /\ DOMAIN time = {"game.exe", "tool"}
    /\ time["game.exe"] = 10

\* C9: a sampling loop that is not applying a batch does not hold the mutex,
\* and a UI tick waiting for the lock while every loop sleeps can take it
C9_SleepsUnlocked ==
    /\ \A t \in 1..Len(loops) : loops[t].pc # "iter" => mutex # LoopOwner(t)
    /\ (uiPc = "wait" /\ \A t \in 1..Len(loops) : loops[t].pc = "sleep")
          => ENABLED LockTime

\* the UI waits for the lock while the loop sleeps after a cycle
C9_Witness ==
    /\ uiPc = "wait"
    /\ Len(loops) = 1
    /\ loops[1].pc = "sleep"
    /\ seen["tool"] = 1

\* C10: the hidden-process list never holds the same name twice
C10_HiddenIsSet ==
    \A i, j \in 1..Len(removed_values) :
        i # j => removed_values[i] # removed_values[j]

====
